---- MODULE Spec2Model ----
(***************************************************************************)
(* A model of the Splunk-on-AWS automation facade: EC2Manager,             *)
(* SplunkDeployer, EC2NodeManager, EC2Helper, S3Backend and SplunkManager. *)
(* Every facade method is one synchronous call, so every action below is   *)
(* one whole call: it draws the arguments and the answers of the external  *)
(* services, runs the method as the source runs it, and leaves the outcome *)
(* of the call in the variables cls, op, args, env, ret, exc, log.         *)
(***************************************************************************)
EXTENDS Integers, Sequences, FiniteSets, TLC

VARIABLES
    cls,      \* class of the last completed call ("" before any call)
    op,       \* method of the last completed call
    args,     \* its arguments
    env,      \* what the external services answered during the call
    ret,      \* the value it returned (Unwound when it raised)
    exc,      \* "none", or the class of the exception that left the call
    log,      \* the requests the call issued, in order
    ssh,      \* the shell session of the call: "none", "open" or "closed"
    client,   \* the SplunkManager object the caller holds (NoClient: none)
    indexes,  \* search platform: the names of the existing indexes
    contract, \* whether the platform only answers as its REST contract says
    lastList, \* the caller's most recent successful list_indexes() result
    touched   \* index names passed to create/delete since that listing

vars == <<cls, op, args, env, ret, exc, log, ssh, client, indexes, contract,
          lastList, touched>>

-----------------------------------------------------------------------------
(* Python values.                                                          *)

PyNone == [t |-> "None"]
PyBool(b) == [t |-> "bool", v |-> b]
PyStr(s) == [t |-> "str", v |-> s]
PyInt(n) == [t |-> "int", v |-> n]
PyList(s) == [t |-> "list", v |-> s]
PyDict(d) == [t |-> "dict", v |-> d]

\* The value slot of a call that raised: nothing was returned.
Unwound == [t |-> "raised"]

\* Python truthiness, as used by `if x`, `not x` and `x if c else y`.
Truthy(x) ==
    CASE x.t = "None" -> FALSE
      [] x.t = "bool" -> x.v
      [] x.t = "str"  -> x.v # ""
      [] x.t = "int"  -> x.v # 0
      [] x.t = "list" -> x.v # <<>>
      [] x.t = "dict" -> DOMAIN x.v # {}
      [] OTHER -> TRUE

\* dict.get(key): the value, or None when the key is absent.
DictGet(d, k) == IF k \in DOMAIN d THEN d[k] ELSE PyNone

\* The outcome of one call.
Returned(v, l) == [ret |-> v, exc |-> "none", log |-> l, ssh |-> "none"]
Raised(e, l) == [ret |-> Unwound, exc |-> e, log |-> l, ssh |-> "none"]

\* One request to an AWS service client.
Req(svc, api, arg) == [svc |-> svc, api |-> api, arg |-> arg]

-----------------------------------------------------------------------------
(* Bounds and input sets.                                                  *)

MaxTags == 2          \* longest tag list of an instance
MaxListed == 2        \* most keys in one object listing
MaxReservations == 2  \* most reservations in one describe_instances answer
MaxPerReservation == 1 \* most instances in one reservation

InstanceIds == {"i-1", "i-2"}
InstanceNames == {"splunk"}
\* The instance the agent and configuration calls are made on.
Targets == {"i-1"}
TagKeys == {"env", "role"}
TagValues == {"prod", "dev"}
Tag(k, v) == [Key |-> k, Value |-> v]
NameTag(n) == Tag("Name", n)

\* Sequences over S of length <= n.
SeqsUpTo(S, n) == UNION {[1..k -> S] : k \in 0..n}

\* Tag lists as EC2 reports them: the keys of one instance are unique.
UniqueKeys(s) == \A i, j \in 1..Len(s) : s[i].Key = s[j].Key => i = j
TagLists ==
    {s \in SeqsUpTo({Tag(k, v) : k \in TagKeys, v \in TagValues}, MaxTags) :
        UniqueKeys(s)}

\* A described instance: the `Tags` entry may be absent.
Instances ==
    {[hasTags |-> TRUE, Tags |-> s] : s \in TagLists}
        \cup {[hasTags |-> FALSE, Tags |-> <<>>]}

\* required_tags: a dict from some keys to a value or None.
RequiredTags ==
    UNION {[S -> {PyStr(v) : v \in TagValues} \cup {PyNone}] :
              S \in SUBSET TagKeys}

\* What a boto3 client call does: it returns, or raises ClientError.
Outcomes == {"ok", "ClientError"}

\* boto3's managed upload re-raises a ClientError of the transfer as
\* boto3.exceptions.S3UploadFailedError, which is not a ClientError.
UploadOutcomes == {"ok", "ClientError", "S3UploadFailedError"}

-----------------------------------------------------------------------------
(* EC2Manager (utils/ec2_manager.py).                                      *)

\* {tag["Key"]: tag["Value"] for tag in instance.get("Tags", [])}:
\* a later entry of the list overwrites an earlier one with the same key.
TagDict(instance) ==
    LET s == IF instance.hasTags THEN instance.Tags ELSE <<>>
        last(k) == CHOOSE i \in 1..Len(s) :
                      /\ s[i].Key = k
                      /\ \A j \in 1..Len(s) : s[j].Key = k => j <= i
    IN  [k \in {s[i].Key : i \in 1..Len(s)} |-> PyStr(s[last(k)].Value)]

check_tags(instance_id, required_tags, outcome, instance) ==
    LET rq == <<Req("ec2", "describe_instances", instance_id)>>
        tags == TagDict(instance)
    IN  IF outcome = "ClientError" THEN Returned(PyBool(FALSE), rq)
        ELSE IF outcome # "ok" THEN Raised(outcome, rq)
        ELSE IF \E key \in DOMAIN required_tags :
                   DictGet(tags, key) # required_tags[key]
             THEN Returned(PyBool(FALSE), rq)
             ELSE Returned(PyBool(TRUE), rq)

\* response["Instances"][0] of a successful run_instances.
EC2Manager_create_instance(tags, outcome, new_id) ==
    LET rq == <<Req("ec2", "run_instances", [Tags |-> tags])>>
    IN  IF outcome = "ok"
        THEN Returned(PyDict([InstanceId |-> PyStr(new_id)]), rq)
        ELSE IF outcome = "ClientError" THEN Returned(PyNone, rq)
        ELSE Raised(outcome, rq)

RECURSIVE Flatten(_)
Flatten(ss) == IF ss = <<>> THEN <<>> ELSE Head(ss) \o Flatten(Tail(ss))

\* [instance for reservation in response["Reservations"]
\*           for instance in reservation["Instances"]]
list_instances(filters, outcome, reservations) ==
    LET rq == <<Req("ec2", "describe_instances", filters)>>
    IN  IF outcome = "ok" THEN Returned(PyList(Flatten(reservations)), rq)
        ELSE IF outcome = "ClientError" THEN Returned(PyList(<<>>), rq)
        ELSE Raised(outcome, rq)

start_instance(instance_id, outcome) ==
    LET rq == <<Req("ec2", "start_instances", instance_id)>>
    IN  IF outcome = "ok" THEN Returned(PyBool(TRUE), rq)
        ELSE IF outcome = "ClientError" THEN Returned(PyBool(FALSE), rq)
        ELSE Raised(outcome, rq)

stop_instance(instance_id, outcome) ==
    LET rq == <<Req("ec2", "stop_instances", instance_id)>>
    IN  IF outcome = "ok" THEN Returned(PyBool(TRUE), rq)
        ELSE IF outcome = "ClientError" THEN Returned(PyBool(FALSE), rq)
        ELSE Raised(outcome, rq)

terminate_instance(instance_id, outcome) ==
    LET rq == <<Req("ec2", "terminate_instances", instance_id)>>
    IN  IF outcome = "ok" THEN Returned(PyBool(TRUE), rq)
        ELSE IF outcome = "ClientError" THEN Returned(PyBool(FALSE), rq)
        ELSE Raised(outcome, rq)

associate_iam_role(instance_id, iam_role_arn, outcome) ==
    LET rq == <<Req("ec2", "associate_iam_instance_profile",
                    [InstanceId |-> instance_id, Arn |-> iam_role_arn])>>
    IN  IF outcome = "ok" THEN Returned(PyBool(TRUE), rq)
        ELSE IF outcome = "ClientError" THEN Returned(PyBool(FALSE), rq)
        ELSE Raised(outcome, rq)

-----------------------------------------------------------------------------
(* S3Backend (utils/s3_backend.py). Each method catches ClientError only:  *)
(* any other exception of the SDK call leaves the method.                  *)

S3Keys == {"a.conf", "b.log"}
Listings ==
    {[hasContents |-> TRUE, Contents |-> s] : s \in SeqsUpTo(S3Keys, MaxListed)}
        \cup {[hasContents |-> FALSE, Contents |-> <<>>]}

upload_file(file_path, s3_key, outcome) ==
    LET rq == <<Req("s3", "upload_file", [path |-> file_path, key |-> s3_key])>>
    IN  IF outcome = "ok" THEN Returned(PyBool(TRUE), rq)
        ELSE IF outcome = "ClientError" THEN Returned(PyBool(FALSE), rq)
        ELSE Raised(outcome, rq)

download_file(s3_key, file_path, outcome) ==
    LET rq == <<Req("s3", "download_file", [path |-> file_path, key |-> s3_key])>>
    IN  IF outcome = "ok" THEN Returned(PyBool(TRUE), rq)
        ELSE IF outcome = "ClientError" THEN Returned(PyBool(FALSE), rq)
        ELSE Raised(outcome, rq)

\* [item["Key"] for item in response.get("Contents", [])]
list_files(prefix, outcome, response) ==
    LET rq == <<Req("s3", "list_objects_v2", prefix)>>
        contents == IF response.hasContents THEN response.Contents ELSE <<>>
    IN  IF outcome = "ok" THEN Returned(PyList(contents), rq)
        ELSE IF outcome = "ClientError" THEN Returned(PyList(<<>>), rq)
        ELSE Raised(outcome, rq)

delete_file(s3_key, outcome) ==
    LET rq == <<Req("s3", "delete_object", s3_key)>>
    IN  IF outcome = "ok" THEN Returned(PyBool(TRUE), rq)
        ELSE IF outcome = "ClientError" THEN Returned(PyBool(FALSE), rq)
        ELSE Raised(outcome, rq)

-----------------------------------------------------------------------------
(* create_instance and tag_instance of SplunkDeployer (deployer.py) and    *)
(* EC2NodeManager (node_manager.py).                                       *)

\* The `tags` argument: omitted, a list of tag records (what run_instances
\* takes) or a dict (what the docstring and node_manager's example pass).
TagsArgs ==
    {PyNone, PyList(<<>>), PyList(<<Tag("App", "Splunk")>>),
     PyList(<<Tag("App", "Splunk"), Tag("env", "prod")>>),
     PyDict(<<>>), PyDict([app |-> "splunk"])}

\* list + x: defined for a list x only.
ListPlus(l, x) == IF x.t = "list" THEN PyList(l \o x.v) ELSE [t |-> "TypeError"]

\* [{"Key": "Name", "Value": instance_name}] + (tags if tags else [])
Deployer_Tags(instance_name, tags) ==
    ListPlus(<<NameTag(instance_name)>>, IF Truthy(tags) THEN tags ELSE PyList(<<>>))

\* [{"Key": "Name", "Value": instance_name}] + tags if tags else [{...}]
NodeManager_Tags(instance_name, tags) ==
    IF Truthy(tags) THEN ListPlus(<<NameTag(instance_name)>>, tags)
    ELSE PyList(<<NameTag(instance_name)>>)

Deployer_create_instance(instance_name, tags, outcome, new_id) ==
    LET t == Deployer_Tags(instance_name, tags)
        rq == <<Req("ec2", "run_instances", [Tags |-> t])>>
    IN  IF t.t = "TypeError" THEN Raised("TypeError", <<>>)
        ELSE IF outcome = "ok" THEN Returned(PyStr(new_id), rq)
        ELSE IF outcome = "ClientError" THEN Returned(PyNone, rq)
        ELSE Raised(outcome, rq)

NodeManager_create_instance(instance_name, tags, outcome, new_id) ==
    LET t == NodeManager_Tags(instance_name, tags)
        rq == <<Req("ec2", "run_instances", [Tags |-> t])>>
    IN  IF t.t = "TypeError" THEN Raised("TypeError", <<>>)
        ELSE IF outcome = "ok" THEN Returned(PyStr(new_id), rq)
        ELSE IF outcome = "ClientError" THEN Returned(PyNone, rq)
        ELSE Raised(outcome, rq)

\* Tags=[{"Key": key, "Value": value} for key, value in tags.items()]
tag_instance(instance_id, tags, outcome) ==
    LET rq == <<Req("ec2", "create_tags",
                    [Resources |-> instance_id,
                     Tags |-> {Tag(k, tags[k]) : k \in DOMAIN tags}])>>
    IN  IF outcome = "ok" THEN Returned(PyBool(TRUE), rq)
        ELSE IF outcome = "ClientError" THEN Returned(PyBool(FALSE), rq)
        ELSE Raised(outcome, rq)

-----------------------------------------------------------------------------
(* The agent check over the command channel: SplunkDeployer and            *)
(* EC2NodeManager check_ssm_agent, EC2NodeManager.install_ssm_agent.       *)

CommandStatuses == {"Pending", "Success", "Failed"}
CommandIds == {"c-1", "c-2"}

\* ssm send_command(InstanceIds=[id], DocumentName="AWS-RunShellScript", ...)
Send(instance_id, commands) ==
    Req("ssm", "send_command", [InstanceId |-> instance_id, commands |-> commands])

DeployerProbe == <<"systemctl status amazon-ssm-agent">>
DeployerInstall ==
    <<"yum install -y amazon-ssm-agent && systemctl start amazon-ssm-agent">>

\* A check that reports the agent as running once its install was accepted.
Deployer_check_ssm_agent_optimistic(instance_id, probe, status, install) ==
    LET p == Send(instance_id, DeployerProbe)
        i == Send(instance_id, DeployerInstall)
    IN  IF probe = "ClientError" THEN Returned(PyBool(FALSE), <<p>>)
        ELSE IF probe # "ok" THEN Raised(probe, <<p>>)
        ELSE IF status = "Success" THEN Returned(PyBool(TRUE), <<p>>)
        ELSE IF install = "ok" THEN Returned(PyBool(TRUE), <<p, i>>)
        ELSE IF install = "ClientError" THEN Returned(PyBool(FALSE), <<p, i>>)
        ELSE Raised(install, <<p, i>>)

\* probe, install: how the two send_command calls end; status: the
\* response["Command"]["Status"] of the probe.
Deployer_check_ssm_agent(instance_id, probe, status, install) ==
    LET p == Send(instance_id, DeployerProbe)
        i == Send(instance_id, DeployerInstall)
    IN  IF probe = "ClientError" THEN Returned(PyBool(FALSE), <<p>>)
        ELSE IF probe # "ok" THEN Raised(probe, <<p>>)
        ELSE IF status = "Success" THEN Returned(PyBool(TRUE), <<p>>)
        ELSE IF install \in {"ok", "ClientError"}
             THEN Returned(PyBool(FALSE), <<p, i>>)
             ELSE Raised(install, <<p, i>>)

NodeManagerProbe == <<"ps -ef | grep amazon-ssm-agent">>
NodeManagerInstall ==
    <<"curl https://amazon-ssm-us-east-1.s3.amazonaws.com/latest/linux_amd64/amazon-ssm-agent.rpm -o /tmp/amazon-ssm-agent.rpm",
      "sudo rpm -i /tmp/amazon-ssm-agent.rpm",
      "sudo systemctl start amazon-ssm-agent">>

\* install_ssm_agent returns None whether the submission worked or not.
install_ssm_agent(instance_id, outcome) ==
    LET i == Send(instance_id, NodeManagerInstall)
    IN  IF outcome \in {"ok", "ClientError"} THEN Returned(PyNone, <<i>>)
        ELSE Raised(outcome, <<i>>)

\* The captured output as words: `"amazon-ssm-agent" in output`.
Outputs ==
    {<<>>, <<"bash:", "ps:", "not", "found">>,
     <<"root", "812", "/usr/bin/", "amazon-ssm-agent">>}
Contains(output, word) == \E k \in 1..Len(output) : output[k] = word

\* probe: the send_command; command_id: the id it answers; fetch: the
\* get_command_invocation; output: its StandardOutputContent.
NodeManager_check_ssm_agent(instance_id, probe, command_id, fetch, output, install) ==
    LET p == Send(instance_id, NodeManagerProbe)
        g == Req("ssm", "get_command_invocation",
                 [CommandId |-> command_id, InstanceId |-> instance_id])
        inst == install_ssm_agent(instance_id, install)
    IN  IF probe = "ClientError" THEN Returned(PyBool(FALSE), <<p>>)
        ELSE IF probe # "ok" THEN Raised(probe, <<p>>)
        ELSE IF fetch = "ClientError" THEN Returned(PyBool(FALSE), <<p, g>>)
        ELSE IF fetch # "ok" THEN Raised(fetch, <<p, g>>)
        ELSE IF Contains(output, "amazon-ssm-agent")
             THEN Returned(PyBool(TRUE), <<p, g>>)
        ELSE IF inst.exc # "none" THEN Raised(inst.exc, <<p, g>> \o inst.log)
        ELSE Returned(PyBool(FALSE), <<p, g>> \o inst.log)

-----------------------------------------------------------------------------
(* configure_splunk of EC2NodeManager and of SplunkDeployer.               *)

ConfKeys == {"license", "index", "forwarder", "search_head", "banner"}
ConfContents == {"a", "b"}
SplunkConfs == UNION {[S -> ConfContents] : S \in SUBSET ConfKeys}

\* f"echo '{content}' > {path}"
Echo(content, path) == [echo |-> content, to |-> path]

LicensePath == "/opt/splunk/etc/system/local/license.conf"
IndexesConfPath == "/opt/splunk/etc/system/local/indexes.conf"
InputsPath == "/opt/splunk/etc/system/local/inputs.conf"
OutputsPath == "/opt/splunk/etc/system/local/outputs.conf"

\* The command list of EC2NodeManager.configure_splunk, in append order.
NodeManager_commands(splunk_conf) ==
    (IF "license" \in DOMAIN splunk_conf
     THEN <<Echo(splunk_conf["license"], LicensePath)>> ELSE <<>>)
    \o (IF "index" \in DOMAIN splunk_conf
        THEN <<Echo(splunk_conf["index"], IndexesConfPath)>> ELSE <<>>)
    \o (IF "forwarder" \in DOMAIN splunk_conf
        THEN <<Echo(splunk_conf["forwarder"], InputsPath)>> ELSE <<>>)

NodeManager_configure_splunk(instance_id, splunk_conf, outcome) ==
    LET rq == <<Send(instance_id, NodeManager_commands(splunk_conf))>>
    IN  IF outcome = "ok" THEN Returned(PyBool(TRUE), rq)
        ELSE IF outcome = "ClientError" THEN Returned(PyBool(FALSE), rq)
        ELSE Raised(outcome, rq)

\* A configure_splunk whose loop goes on to the next command after a
\* submission that met a provider error.
Deployer_configure_splunk_continue(instance_id, splunk_conf, first, second) ==
    IF {"forwarder", "search_head"} \subseteq DOMAIN splunk_conf
    THEN LET c1 == Send(instance_id, <<Echo(splunk_conf["forwarder"], InputsPath)>>)
             c2 == Send(instance_id, <<Echo(splunk_conf["search_head"], OutputsPath)>>)
         IN  IF first \notin {"ok", "ClientError"} THEN Raised(first, <<c1>>)
             ELSE IF second \notin {"ok", "ClientError"} THEN Raised(second, <<c1, c2>>)
             ELSE Returned(PyBool(first = "ok" /\ second = "ok"), <<c1, c2>>)
    ELSE Raised("KeyError", <<>>)

\* SplunkDeployer.configure_splunk subscripts both keys while it builds the
\* list (KeyError when one is absent), then sends each command on its own.
Deployer_configure_splunk(instance_id, splunk_conf, first, second) ==
    IF {"forwarder", "search_head"} \subseteq DOMAIN splunk_conf
    THEN LET c1 == Send(instance_id, <<Echo(splunk_conf["forwarder"], InputsPath)>>)
             c2 == Send(instance_id, <<Echo(splunk_conf["search_head"], OutputsPath)>>)
         IN  IF first = "ClientError" THEN Returned(PyBool(FALSE), <<c1>>)
             ELSE IF first # "ok" THEN Raised(first, <<c1>>)
             ELSE IF second = "ClientError" THEN Returned(PyBool(FALSE), <<c1, c2>>)
             ELSE IF second # "ok" THEN Raised(second, <<c1, c2>>)
             ELSE Returned(PyBool(TRUE), <<c1, c2>>)
    ELSE Raised("KeyError", <<>>)

-----------------------------------------------------------------------------
(* EC2Manager: the CloudWatch alarms. self is the set of attributes that   *)
(* the object has.                                                         *)

\* EC2Manager.__init__ sets self.ec2_client and nothing else.
EC2Manager_init == {"ec2_client"}

\* The objects met: as constructed, or given a cw_client by the caller
\* afterwards.
Managers == {EC2Manager_init, EC2Manager_init \cup {"cw_client"}}

AlarmNames == {"cpu-high"}
AlarmLists == {<<>>, <<[AlarmName |-> "cpu-high"]>>}

\* self.cw_client is read inside the try block, whose handler catches
\* ClientError only.
create_cloudwatch_alarm(self, instance_id, alarm_name, outcome) ==
    LET rq == <<Req("cloudwatch", "put_metric_alarm",
                    [AlarmName |-> alarm_name, InstanceId |-> instance_id])>>
    IN  IF "cw_client" \notin self THEN Raised("AttributeError", <<>>)
        ELSE IF outcome = "ok" THEN Returned(PyBool(TRUE), rq)
        ELSE IF outcome = "ClientError" THEN Returned(PyBool(FALSE), rq)
        ELSE Raised(outcome, rq)

\* alarms: the MetricAlarms of the response.
list_cloudwatch_alarms(self, instance_id, outcome, alarms) ==
    LET rq == <<Req("cloudwatch", "describe_alarms_for_metric", instance_id)>>
    IN  IF "cw_client" \notin self THEN Raised("AttributeError", <<>>)
        ELSE IF outcome = "ok" THEN Returned(PyList(alarms), rq)
        ELSE IF outcome = "ClientError" THEN Returned(PyList(<<>>), rq)
        ELSE Raised(outcome, rq)

-----------------------------------------------------------------------------
(* SplunkDeployer.deploy_splunk and health_check: one submission each.     *)

PackageUrls == {"https://download.splunk.com/splunk.tar.gz"}

\* f"wget {splunk_package_url} -O /tmp/splunk.tar.gz && tar -zxvf ..."
InstallCommand(splunk_package_url) ==
    <<"wget ", splunk_package_url,
      " -O /tmp/splunk.tar.gz && tar -zxvf /tmp/splunk.tar.gz -C /opt/splunk">>

Deployer_deploy_splunk(instance_id, splunk_package_url, outcome) ==
    LET rq == <<Send(instance_id, <<InstallCommand(splunk_package_url)>>)>>
    IN  IF outcome = "ok" THEN Returned(PyBool(TRUE), rq)
        ELSE IF outcome = "ClientError" THEN Returned(PyBool(FALSE), rq)
        ELSE Raised(outcome, rq)

\* A health check that submits the status command again when the first
\* submission is not reported as a success.
health_check_recheck(instance_id, outcome, status) ==
    LET rq == Send(instance_id, <<"/opt/splunk/bin/splunk status">>)
    IN  IF outcome = "ClientError" THEN Returned(PyBool(FALSE), <<rq>>)
        ELSE IF outcome # "ok" THEN Raised(outcome, <<rq>>)
        ELSE IF status = "Success" THEN Returned(PyBool(TRUE), <<rq>>)
        ELSE Returned(PyBool(FALSE), <<rq, rq>>)

\* status: the response["Command"]["Status"] of the submission.
health_check(instance_id, outcome, status) ==
    LET rq == <<Send(instance_id, <<"/opt/splunk/bin/splunk status">>)>>
    IN  IF outcome = "ClientError" THEN Returned(PyBool(FALSE), rq)
        ELSE IF outcome # "ok" THEN Raised(outcome, rq)
        ELSE Returned(PyBool(status = "Success"), rq)

-----------------------------------------------------------------------------
(* The deployer module as its test module (tests/test_deployer.py) uses it. *)

\* The names that splunk/deployer.py binds at module level.
DeployerModule == {"boto3", "ClientError", "logging", "SplunkDeployer"}

\* from <module> import <name>
ImportFrom(module, name) == IF name \in module THEN "ok" ELSE "ImportError"

\* What the tests call on the class they import, and the base URLs and the
\* credential pair they construct it with.
DeployerCalls == {"__init__", "deploy_app", "check_app_status"}
TestBaseUrls == {"https://splunk.example.com", "ftp://invalid.url"}
TestAuth == [t |-> "tuple", v |-> <<PyStr("admin"), PyStr("password")>>]

-----------------------------------------------------------------------------
(* EC2Helper.check_and_resolve_ssm (utils/ec2_helper.py): the agent check  *)
(* over a direct shell session.                                            *)

\* instance.get("PublicIpAddress"): None when the instance has none.
PublicIps == {PyNone, PyStr("54.0.0.7")}

\* How paramiko's SSHClient.connect ends. AuthenticationException is an
\* SSHException; a refused or timed-out connection is a socket.error.
ConnectOutcomes == {"ok", "AuthenticationException", "SSHException", "socket.error"}
IsSSHException(e) == e \in {"SSHException", "AuthenticationException"}

\* The five exec_command calls of the method, in the order of the source.
HelperCommands ==
    <<"systemctl is-active amazon-ssm-agent",
      "sudo yum install -y amazon-ssm-agent",
      "sudo systemctl enable amazon-ssm-agent",
      "sudo systemctl start amazon-ssm-agent",
      "systemctl is-active amazon-ssm-agent">>
NumHelperCommands == Len(HelperCommands)
Exec(k) == Req("ssh", "exec_command", HelperCommands[k])
Execs(n) == [k \in 1..n |-> Exec(k)]

\* stdout.read().decode() as a sequence of tokens, "\n" being whitespace.
RawStatuses == {<<"active", "\n">>, <<"active">>, <<"inactive", "\n">>}

\* str.strip(): whitespace removed at both ends.
RECURSIVE LStrip(_)
LStrip(w) == IF w # <<>> /\ Head(w) = "\n" THEN LStrip(Tail(w)) ELSE w
RECURSIVE RStrip(_)
RStrip(w) ==
    IF w # <<>> /\ w[Len(w)] = "\n" THEN RStrip(SubSeq(w, 1, Len(w) - 1)) ELSE w
Strip(w) == RStrip(LStrip(w))

\* exec_command returns once the command is started, without waiting for
\* it to end; stdout.read() waits for the end of its command. The method
\* reads the output of the two probes only.
AwaitedCommands == {1, NumHelperCommands}
RemediationCommands == 2..(NumHelperCommands - 1)

\* The remediation commands that may have ended on the host by the time the
\* second probe is evaluated: those awaited, and any of the others.
CompletedAtSecondProbe ==
    {d \in SUBSET RemediationCommands : RemediationCommands \cap AwaitedCommands \subseteq d}

\* describe: how describe_instances ends; connect: how ssh.connect ends;
\* failAt: which exec_command raises SSHException (0: none); out1, out2:
\* what the first and the second probe print.
check_and_resolve_ssm(instance_id, key_path, username, describe, public_ip, connect, failAt, out1, out2) ==
    LET d == Req("ec2", "describe_instances", instance_id)
        c == Req("ssh", "connect",
                 [host |-> public_ip, username |-> username, key |-> key_path])
        Out(v, e, l, sess) == [ret |-> v, exc |-> e, log |-> l, ssh |-> sess]
    IN  IF describe = "ClientError" THEN Out(PyBool(FALSE), "none", <<d>>, "none")
        ELSE IF describe # "ok" THEN Out(Unwound, describe, <<d>>, "none")
        ELSE IF ~Truthy(public_ip) THEN Out(PyBool(FALSE), "none", <<d>>, "none")
        ELSE IF IsSSHException(connect)
             THEN Out(PyBool(FALSE), "none", <<d, c>>, "none")
        ELSE IF connect # "ok" THEN Out(Unwound, connect, <<d, c>>, "none")
        ELSE IF failAt = 1
             THEN Out(PyBool(FALSE), "none", <<d, c>> \o Execs(1), "open")
        ELSE IF Strip(out1) = <<"active">>
             THEN Out(PyBool(TRUE), "none", <<d, c>> \o Execs(1), "closed")
        ELSE IF failAt \in 2..NumHelperCommands
             THEN Out(PyBool(FALSE), "none", <<d, c>> \o Execs(failAt), "open")
        ELSE Out(PyBool(Strip(out2) = <<"active">>), "none",
                 <<d, c>> \o Execs(NumHelperCommands), "closed")

-----------------------------------------------------------------------------
(* SplunkManager (utils/splunk_api.py): construction.                      *)

NoClient == [t |-> "None"]

\* A base URL as tokens, "/" being one trailing slash.
BaseUrls == {<<"https://splunk:8089">>, <<"https://splunk:8089", "/">>}

\* str.rstrip("/")
RECURSIVE RStripSlash(_)
RStripSlash(u) ==
    IF u # <<>> /\ u[Len(u)] = "/" THEN RStripSlash(SubSeq(u, 1, Len(u) - 1)) ELSE u

\* The SecretString of the secret: a dict literal with some of the two
\* fields, a literal that is no dict, or text that does not evaluate.
SecretFieldValues(k) ==
    {PyStr(""), PyStr(IF k = "username" THEN "admin" ELSE "changeme")}
SecretDicts ==
    UNION {{d \in [S -> {PyStr(""), PyStr("admin"), PyStr("changeme")}] :
               \A k \in S : d[k] \in SecretFieldValues(k)} :
           S \in SUBSET {"username", "password"}}
SecretStrings ==
    {[form |-> "dict", v |-> d] : d \in SecretDicts}
        \cup {[form |-> "list", v |-> <<>>], [form |-> "malformed", v |-> <<>>]}

\* The variant of the credential check that tests the username only.
credentials_username_only(secret_name, aws_region, outcome, secret) ==
    LET rq == <<Req("secretsmanager", "get_secret_value", secret_name)>>
        username == DictGet(secret.v, "username")
        password == DictGet(secret.v, "password")
    IN  IF outcome # "ok" THEN Raised(outcome, rq)
        ELSE IF secret.form = "malformed" THEN Raised("SyntaxError", rq)
        ELSE IF secret.form # "dict" THEN Raised("AttributeError", rq)
        ELSE IF ~Truthy(username) THEN Raised("ValueError", rq)
        ELSE Returned([t |-> "tuple", v |-> <<username, password>>], rq)

\* A credential lookup that catches the provider's error and answers None.
credentials_none_on_error(secret_name, aws_region, outcome, secret) ==
    LET rq == <<Req("secretsmanager", "get_secret_value", secret_name)>>
        username == DictGet(secret.v, "username")
        password == DictGet(secret.v, "password")
    IN  IF outcome = "ClientError" THEN Returned(PyNone, rq)
        ELSE IF outcome # "ok" THEN Raised(outcome, rq)
        ELSE IF secret.form = "malformed" THEN Raised("SyntaxError", rq)
        ELSE IF secret.form # "dict" THEN Raised("AttributeError", rq)
        ELSE IF ~Truthy(username) \/ ~Truthy(password) THEN Raised("ValueError", rq)
        ELSE Returned([t |-> "tuple", v |-> <<username, password>>], rq)

\* outcome: how get_secret_value ends (nothing here catches its error);
\* secret: the SecretString it answers. eval(secret) raises on text that
\* is no expression, and .get raises on a value that is no dict.
get_credentials_from_secrets_manager(secret_name, aws_region, outcome, secret) ==
    LET rq == <<Req("secretsmanager", "get_secret_value", secret_name)>>
        username == DictGet(secret.v, "username")
        password == DictGet(secret.v, "password")
    IN  IF outcome # "ok" THEN Raised(outcome, rq)
        ELSE IF secret.form = "malformed" THEN Raised("SyntaxError", rq)
        ELSE IF secret.form # "dict" THEN Raised("AttributeError", rq)
        ELSE IF ~Truthy(username) \/ ~Truthy(password) THEN Raised("ValueError", rq)
        ELSE Returned([t |-> "tuple", v |-> <<username, password>>], rq)

\* SplunkManager(base_url, secret_name, aws_region): the object, or the
\* exception of the credential lookup (and then no object).
SplunkManager_init(base_url, secret_name, aws_region, outcome, secret) ==
    LET cr == get_credentials_from_secrets_manager(secret_name, aws_region,
                                                   outcome, secret)
    IN  IF cr.exc # "none" THEN cr
        ELSE Returned([t |-> "SplunkManager",
                       v |-> [base_url |-> RStripSlash(base_url), auth |-> cr.ret]],
                      cr.log)

-----------------------------------------------------------------------------
(* The search platform's REST endpoint, as the client sees it.             *)

IndexNames == {"t1", "t2"}
Sids == {"s1", "s2"}

\* A request sent without the credential pair.
Request_without_auth(method, url, auth, data) ==
    [method |-> method, url |-> url, auth |-> PyNone, data |-> data]

\* One HTTP request of the client.
Request(method, url, auth, data) ==
    [method |-> method, url |-> url, auth |-> auth, data |-> data]

\* A response body: JSON (an object, as a record of its fields) or not.
JsonBody(v) == [json |-> TRUE, v |-> v]
TextBody == [json |-> FALSE, v |-> <<>>]
Response(status, body) == [status |-> status, body |-> body]

IndexesPath == "/services/data/indexes"

\* The platform's answer to a request under /services/data/indexes: it
\* honours the request (fault = 0), or answers with the status `fault` and
\* leaves its indexes alone. `idx` is the set of existing index names. The
\* collection is the URL that ends with the path, an index the URL that ends
\* with the path, "/" and the index name.
ServeIndexes(rq, idx, fault) ==
    LET Ans(st, b, after) == [status |-> st, body |-> b, indexes |-> after]
        error == JsonBody([messages |-> "error"])
        u == rq.url
        collection == u[Len(u)] = IndexesPath
        name == u[Len(u)]
    IN  IF fault # 0 THEN Ans(fault, IF fault = 304 THEN TextBody ELSE error, idx)
        ELSE IF collection /\ rq.method = "POST"
             THEN LET new == rq.data["name"].v
                  IN  IF new \in idx THEN Ans(409, error, idx)
                      ELSE Ans(201, JsonBody([entry |-> {new}]), idx \cup {new})
        ELSE IF collection /\ rq.method = "GET"
             THEN Ans(200, JsonBody([entry |-> idx]), idx)
        ELSE IF collection THEN Ans(405, error, idx)
        ELSE IF name \notin idx THEN Ans(404, error, idx)
        ELSE IF rq.method = "DELETE"
             THEN Ans(200, JsonBody([entry |-> {}]), idx \ {name})
        ELSE IF rq.method = "GET"
             THEN Ans(200, JsonBody([entry |-> {name}]), idx)
        ELSE Ans(405, error, idx)

\* The statuses a platform may put in place of its own answer: one that
\* keeps to its contract is at most unavailable; an endpoint in front of
\* it may also answer with a status that is neither success nor error.
Faults(c) == IF c THEN {0, 503} ELSE {0, 304, 503}

\* The answers on the other endpoints (search jobs, apps, server): an
\* error with its message, or a body under a status that is no error.
OtherResponses(c) ==
    LET bodies == {JsonBody([sid |-> x]) : x \in Sids}
                      \cup {JsonBody([entry |-> {"app1"}])}
        errors == {Response(st, JsonBody([messages |-> "error"])) : st \in {404, 503}}
    IN  IF c THEN errors \cup {Response(200, b) : b \in bodies}
        ELSE errors \cup {Response(st, b) : st \in {200, 304},
                                            b \in bodies \cup {TextBody}}

-----------------------------------------------------------------------------
(* SplunkManager: the REST operations. self is the client object. Each     *)
(* operation is its request (X_request) and what it makes of the response  *)
(* r it meets; its log holds one exchange per request: the request and     *)
(* the response.                                                           *)

Exchange(rq, r) ==
    [method |-> rq.method, url |-> rq.url, auth |-> rq.auth, data |-> rq.data,
     status |-> r.status, body |-> r.body]

\* An exception that carries a payload (HTTPError: the response status).
RaisedWith(e, payload, l) ==
    [ret |-> [t |-> "raised", carries |-> payload], exc |-> e, log |-> l,
     ssh |-> "none"]

\* A raise_for_status that only reports the server errors.
raise_for_status_5xx(status) == status \in 500..599

\* requests' Response.raise_for_status raises HTTPError for 400..599.
raise_for_status(status) == status \in 400..599

\* response.raise_for_status(); return response.json()
raise_or_json(r, l) ==
    IF raise_for_status(r.status) THEN RaisedWith("HTTPError", r.status, l)
    ELSE IF ~r.body.json THEN Raised("JSONDecodeError", l)
    ELSE Returned(PyDict(r.body.v), l)

\* response.raise_for_status(); return response.json().get("entry", [])
raise_or_entries(r, l) ==
    IF raise_for_status(r.status) THEN RaisedWith("HTTPError", r.status, l)
    ELSE IF ~r.body.json THEN Raised("JSONDecodeError", l)
    ELSE IF "entry" \in DOMAIN r.body.v
         THEN Returned([t |-> "entries", v |-> r.body.v.entry], l)
         ELSE Returned([t |-> "entries", v |-> {}], l)

IndexesUrl(self) == self.base_url \o <<IndexesPath>>
IndexUrl(self, index_name) == IndexesUrl(self) \o <<"/", index_name>>
JobsUrl(self) == self.base_url \o <<"/services/search/jobs">>
ResultsUrl(self, sid) == JobsUrl(self) \o <<"/", sid, "/results">>
AppsUrl(self) == self.base_url \o <<"/services/apps/local">>
AppUrl(self, app_name) == AppsUrl(self) \o <<"/", app_name>>
RestartUrl(self) == self.base_url \o <<"/services/server/control/restart">>
InfoUrl(self) == self.base_url \o <<"/services/server/info">>

JsonMode == [output_mode |-> "json"]
NoData == <<>>

\* payload = {"name": index_name}, plus the optional fields that are truthy.
IndexPayload(index_name, max_size_mb, home_path) ==
    [k \in {"name"}
         \cup (IF Truthy(max_size_mb) THEN {"maxTotalDataSizeMB"} ELSE {})
         \cup (IF Truthy(home_path) THEN {"homePath"} ELSE {})
     |-> CASE k = "name" -> PyStr(index_name)
           [] k = "maxTotalDataSizeMB" -> max_size_mb
           [] OTHER -> home_path]

create_index_request(self, index_name, max_size_mb, home_path) ==
    Request("POST", IndexesUrl(self), self.auth,
            IndexPayload(index_name, max_size_mb, home_path))

create_index(self, index_name, max_size_mb, home_path, r) ==
    raise_or_json(r, <<Exchange(create_index_request(self, index_name,
                                                     max_size_mb, home_path), r)>>)

\* A delete request that names another index than the one asked for.
delete_index_request_other(self, index_name) ==
    Request("DELETE",
            IndexUrl(self, CHOOSE n \in IndexNames : n # index_name),
            self.auth, NoData)

delete_index_request(self, index_name) ==
    Request("DELETE", IndexUrl(self, index_name), self.auth, NoData)

delete_index(self, index_name, r) ==
    raise_or_json(r, <<Exchange(delete_index_request(self, index_name), r)>>)

list_indexes_request(self) ==
    Request("GET", IndexesUrl(self), self.auth, JsonMode)

list_indexes(self, r) ==
    raise_or_entries(r, <<Exchange(list_indexes_request(self), r)>>)

get_index_details_request(self, index_name) ==
    Request("GET", IndexUrl(self, index_name), self.auth, JsonMode)

get_index_details(self, index_name, r) ==
    raise_or_json(r, <<Exchange(get_index_details_request(self, index_name), r)>>)

get_search_results(self, sid, r) ==
    raise_or_json(r, <<Exchange(Request("GET", ResultsUrl(self, sid), self.auth,
                                        JsonMode), r)>>)

SearchPayload(query, earliest_time, latest_time) ==
    [search |-> <<"search ", query>>, earliest_time |-> earliest_time,
     latest_time |-> latest_time, output_mode |-> "json"]

\* An execute_search that submits the job again before it fetches.
execute_search_resubmit(self, query, earliest_time, latest_time, r1, r2) ==
    LET post == Exchange(Request("POST", JobsUrl(self), self.auth,
                             SearchPayload(query, earliest_time, latest_time)), r1)
        job == raise_or_json(r1, <<post>>)
    IN  IF job.exc # "none" THEN job
        ELSE IF "sid" \notin DOMAIN job.ret.v THEN Raised("KeyError", <<post>>)
        ELSE LET res == get_search_results(self, job.ret.v.sid, r2)
             IN  [res EXCEPT !.log = <<post, post>> \o res.log]

\* An execute_search that does not look at the status of the submission
\* and fetches the results of job.get("sid"), None when there is no sid.
execute_search_unchecked(self, query, earliest_time, latest_time, r1, r2) ==
    LET post == Exchange(Request("POST", JobsUrl(self), self.auth,
                             SearchPayload(query, earliest_time, latest_time)), r1)
        sid == IF r1.body.json /\ "sid" \in DOMAIN r1.body.v
               THEN r1.body.v.sid ELSE "None"
    IN  IF ~r1.body.json THEN Raised("JSONDecodeError", <<post>>)
        ELSE LET res == get_search_results(self, sid, r2)
             IN  [res EXCEPT !.log = <<post>> \o res.log]

\* r1 answers the job submission, r2 the results fetch.
execute_search(self, query, earliest_time, latest_time, r1, r2) ==
    LET post == Exchange(Request("POST", JobsUrl(self), self.auth,
                             SearchPayload(query, earliest_time, latest_time)), r1)
        job == raise_or_json(r1, <<post>>)
    IN  IF job.exc # "none" THEN job
        ELSE IF "sid" \notin DOMAIN job.ret.v THEN Raised("KeyError", <<post>>)
        ELSE LET res == get_search_results(self, job.ret.v.sid, r2)
             IN  [res EXCEPT !.log = <<post>> \o res.log]

\* open(app_package, "rb") comes first: no request when the file is missing.
install_app(self, app_package, readable, r) ==
    IF ~readable THEN Raised("FileNotFoundError", <<>>)
    ELSE raise_or_json(r, <<Exchange(Request("POST", AppsUrl(self), self.auth,
                                             [appfile |-> app_package]), r)>>)

list_installed_apps(self, r) ==
    raise_or_entries(r, <<Exchange(Request("GET", AppsUrl(self), self.auth,
                                           JsonMode), r)>>)

delete_app(self, app_name, r) ==
    raise_or_json(r, <<Exchange(Request("DELETE", AppUrl(self, app_name),
                                        self.auth, NoData), r)>>)

restart_server(self, r) ==
    raise_or_json(r, <<Exchange(Request("POST", RestartUrl(self), self.auth,
                                        NoData), r)>>)

get_server_info(self, r) ==
    raise_or_json(r, <<Exchange(Request("GET", InfoUrl(self), self.auth,
                                        JsonMode), r)>>)

-----------------------------------------------------------------------------
(* The state machine. Every action is one completed call.                  *)

\* The per-call variables after a call of c.o with arguments a that met the
\* answers e and ended as r.
Finish(c, o, a, e, r) ==
    /\ cls' = c
    /\ op' = o
    /\ args' = a
    /\ env' = e
    /\ ret' = r.ret
    /\ exc' = r.exc
    /\ log' = r.log
    /\ ssh' = r.ssh

\* The search platform, its client and the caller's view of its indexes:
\* a call on the AWS side leaves them alone.
platform == <<client, indexes, contract, lastList, touched>>

Paths == {"/tmp/splunk.tgz"}
Arns == {"arn:aws:iam::1:instance-profile/splunk"}
Filters == {PyList(<<>>), PyList(<<[Name |-> "tag:App", Values |-> <<"Splunk">>]>>)}
Reservations == SeqsUpTo(SeqsUpTo(InstanceIds, MaxPerReservation), MaxReservations)
TagDicts == UNION {[S -> TagValues] : S \in SUBSET TagKeys}

CheckTags ==
    \E i \in InstanceIds, rt \in RequiredTags, o \in Outcomes, inst \in Instances :
        /\ Finish("EC2Manager", "check_tags",
                  [instance_id |-> i, required_tags |-> rt],
                  [outcome |-> o, instance |-> inst],
                  check_tags(i, rt, o, inst))
        /\ UNCHANGED platform

EC2ManagerCreateInstance ==
    \E t \in TagsArgs, o \in Outcomes, id \in InstanceIds :
        /\ Finish("EC2Manager", "create_instance", [tags |-> t],
                  [outcome |-> o, new_id |-> id],
                  EC2Manager_create_instance(t, o, id))
        /\ UNCHANGED platform

DeployerCreateInstance ==
    \E n \in InstanceNames, t \in TagsArgs, o \in Outcomes, id \in InstanceIds :
        /\ Finish("SplunkDeployer", "create_instance",
                  [instance_name |-> n, tags |-> t],
                  [outcome |-> o, new_id |-> id],
                  Deployer_create_instance(n, t, o, id))
        /\ UNCHANGED platform

NodeManagerCreateInstance ==
    \E n \in InstanceNames, t \in TagsArgs, o \in Outcomes, id \in InstanceIds :
        /\ Finish("EC2NodeManager", "create_instance",
                  [instance_name |-> n, tags |-> t],
                  [outcome |-> o, new_id |-> id],
                  NodeManager_create_instance(n, t, o, id))
        /\ UNCHANGED platform

ListInstances ==
    \E f \in Filters, o \in Outcomes, rs \in Reservations :
        /\ Finish("EC2Manager", "list_instances", [filters |-> f],
                  [outcome |-> o, reservations |-> rs],
                  list_instances(f, o, rs))
        /\ UNCHANGED platform

StartInstance ==
    \E i \in InstanceIds, o \in Outcomes :
        /\ Finish("EC2Manager", "start_instance", [instance_id |-> i],
                  [outcome |-> o], start_instance(i, o))
        /\ UNCHANGED platform

StopInstance ==
    \E i \in InstanceIds, o \in Outcomes :
        /\ Finish("EC2Manager", "stop_instance", [instance_id |-> i],
                  [outcome |-> o], stop_instance(i, o))
        /\ UNCHANGED platform

TerminateInstance ==
    \E i \in InstanceIds, o \in Outcomes :
        /\ Finish("EC2Manager", "terminate_instance", [instance_id |-> i],
                  [outcome |-> o], terminate_instance(i, o))
        /\ UNCHANGED platform

AssociateIamRole ==
    \E i \in InstanceIds, a \in Arns, o \in Outcomes :
        /\ Finish("EC2Manager", "associate_iam_role",
                  [instance_id |-> i, iam_role_arn |-> a],
                  [outcome |-> o], associate_iam_role(i, a, o))
        /\ UNCHANGED platform

CreateCloudwatchAlarm ==
    \E self \in Managers, i \in InstanceIds, n \in AlarmNames, o \in Outcomes :
        /\ Finish("EC2Manager", "create_cloudwatch_alarm",
                  [instance_id |-> i, alarm_name |-> n],
                  [self |-> self, outcome |-> o],
                  create_cloudwatch_alarm(self, i, n, o))
        /\ UNCHANGED platform

ListCloudwatchAlarms ==
    \E self \in Managers, i \in InstanceIds, o \in Outcomes, as \in AlarmLists :
        /\ Finish("EC2Manager", "list_cloudwatch_alarms", [instance_id |-> i],
                  [self |-> self, outcome |-> o, alarms |-> as],
                  list_cloudwatch_alarms(self, i, o, as))
        /\ UNCHANGED platform

TagInstance ==
    \E i \in InstanceIds, t \in TagDicts, o \in Outcomes :
        /\ Finish("EC2NodeManager", "tag_instance",
                  [instance_id |-> i, tags |-> t],
                  [outcome |-> o], tag_instance(i, t, o))
        /\ UNCHANGED platform

UploadFile ==
    \E f \in Paths, k \in S3Keys, o \in UploadOutcomes :
        /\ Finish("S3Backend", "upload_file", [file_path |-> f, s3_key |-> k],
                  [outcome |-> o], upload_file(f, k, o))
        /\ UNCHANGED platform

DownloadFile ==
    \E f \in Paths, k \in S3Keys, o \in Outcomes :
        /\ Finish("S3Backend", "download_file", [file_path |-> f, s3_key |-> k],
                  [outcome |-> o], download_file(k, f, o))
        /\ UNCHANGED platform

ListFiles ==
    \E pf \in {"", "conf/"}, o \in Outcomes, l \in Listings :
        /\ Finish("S3Backend", "list_files", [prefix |-> pf],
                  [outcome |-> o, response |-> l], list_files(pf, o, l))
        /\ UNCHANGED platform

DeleteFile ==
    \E k \in S3Keys, o \in Outcomes :
        /\ Finish("S3Backend", "delete_file", [s3_key |-> k],
                  [outcome |-> o], delete_file(k, o))
        /\ UNCHANGED platform

DeployerCheckSsmAgent ==
    \E i \in Targets, p \in Outcomes, st \in CommandStatuses, o \in Outcomes :
        /\ Finish("SplunkDeployer", "check_ssm_agent", [instance_id |-> i],
                  [probe |-> p, status |-> st, install |-> o],
                  Deployer_check_ssm_agent(i, p, st, o))
        /\ UNCHANGED platform

NodeManagerCheckSsmAgent ==
    \E i \in Targets, p \in Outcomes, c \in CommandIds, f \in Outcomes,
       out \in Outputs, o \in Outcomes :
        /\ Finish("EC2NodeManager", "check_ssm_agent", [instance_id |-> i],
                  [probe |-> p, command_id |-> c, fetch |-> f, output |-> out,
                   install |-> o],
                  NodeManager_check_ssm_agent(i, p, c, f, out, o))
        /\ UNCHANGED platform

InstallSsmAgent ==
    \E i \in Targets, o \in Outcomes :
        /\ Finish("EC2NodeManager", "install_ssm_agent", [instance_id |-> i],
                  [outcome |-> o], install_ssm_agent(i, o))
        /\ UNCHANGED platform

NodeManagerConfigureSplunk ==
    \E i \in Targets, conf \in SplunkConfs, o \in Outcomes :
        /\ Finish("EC2NodeManager", "configure_splunk",
                  [instance_id |-> i, splunk_conf |-> conf],
                  [sends |-> <<o>>], NodeManager_configure_splunk(i, conf, o))
        /\ UNCHANGED platform

DeployerConfigureSplunk ==
    \E i \in Targets, conf \in SplunkConfs, o1 \in Outcomes, o2 \in Outcomes :
        /\ Finish("SplunkDeployer", "configure_splunk",
                  [instance_id |-> i, splunk_conf |-> conf],
                  [sends |-> <<o1, o2>>], Deployer_configure_splunk(i, conf, o1, o2))
        /\ UNCHANGED platform

CheckAndResolveSsm ==
    \E i \in Targets, d \in Outcomes, ip \in PublicIps, c \in ConnectOutcomes,
       k \in 0..NumHelperCommands, o1 \in RawStatuses, o2 \in RawStatuses :
        LET r == check_and_resolve_ssm(i, "key.pem", "ec2-user", d, ip, c, k, o1, o2)
            probedTwice == Len(r.log) = 2 + NumHelperCommands
        IN  \E done \in (IF probedTwice THEN CompletedAtSecondProbe ELSE {{}}) :
                /\ Finish("EC2Helper", "check_and_resolve_ssm",
                          [instance_id |-> i, key_path |-> "key.pem", username |-> "ec2-user"],
                          [describe |-> d, public_ip |-> ip, connect |-> c, failAt |-> k,
                           out1 |-> o1, out2 |-> o2, done |-> done], r)
                /\ UNCHANGED platform

DeploySplunk ==
    \E i \in Targets, u \in PackageUrls, o \in Outcomes :
        /\ Finish("SplunkDeployer", "deploy_splunk",
                  [instance_id |-> i, splunk_package_url |-> u],
                  [outcome |-> o], Deployer_deploy_splunk(i, u, o))
        /\ UNCHANGED platform

HealthCheck ==
    \E i \in Targets, o \in Outcomes, st \in CommandStatuses :
        /\ Finish("SplunkDeployer", "health_check", [instance_id |-> i],
                  [outcome |-> o, status |-> st], health_check(i, o, st))
        /\ UNCHANGED platform

\* A use of Deployer as the test module makes it: the import comes first,
\* and its exception is the end of the use.
DeployerUse ==
    \E o \in DeployerCalls, b \in TestBaseUrls :
        /\ ImportFrom(DeployerModule, "Deployer") # "ok"
        /\ Finish("Deployer", o, [base_url |-> b, auth |-> TestAuth], <<>>,
                  Raised(ImportFrom(DeployerModule, "Deployer"), <<>>))
        /\ UNCHANGED platform

\* The caller's view of the indexes, kept up as each call is made:
\* lastList is the last listing returned before the call that is being
\* made, touched the index names passed to create_index or delete_index
\* since that listing, the call being made included.
Observe(o, n) ==
    LET fresh == cls = "SplunkManager" /\ op = "list_indexes" /\ exc = "none"
    IN  /\ lastList' = IF fresh THEN [known |-> TRUE, names |-> ret.v]
                       ELSE lastList
        /\ touched' = (IF fresh THEN {} ELSE touched)
                          \cup (IF o \in {"create_index", "delete_index"}
                                THEN {n} ELSE {})

SecretNames == {"splunk_admin_credentials"}
Queries == {"index=main"}
Apps == {"app1"}
MaxSizes == {PyNone, PyInt(500)}

Construct ==
    \E b \in BaseUrls, n \in SecretNames, o \in Outcomes, s \in SecretStrings :
        LET r == SplunkManager_init(b, n, "us-east-1", o, s)
        IN  /\ Finish("SplunkManager", "__init__",
                      [base_url |-> b, secret_name |-> n],
                      [outcome |-> o, secret |-> s], r)
            /\ client' = IF r.exc = "none" THEN r.ret.v ELSE client
            /\ Observe("__init__", "")
            /\ UNCHANGED <<indexes, contract>>

CreateIndex ==
    \E n \in IndexNames, m \in MaxSizes, f \in Faults(contract) :
        LET a == ServeIndexes(create_index_request(client, n, m, PyNone),
                              indexes, f)
            r == Response(a.status, a.body)
        IN  /\ client # NoClient
            /\ Finish("SplunkManager", "create_index",
                      [index_name |-> n, max_size_mb |-> m], <<>>,
                      create_index(client, n, m, PyNone, r))
            /\ indexes' = a.indexes
            /\ Observe("create_index", n)
            /\ UNCHANGED <<client, contract>>

DeleteIndex ==
    \E n \in IndexNames, f \in Faults(contract) :
        LET a == ServeIndexes(delete_index_request(client, n), indexes, f)
            r == Response(a.status, a.body)
        IN  /\ client # NoClient
            /\ Finish("SplunkManager", "delete_index",
                      [index_name |-> n], <<>>,
                      delete_index(client, n, r))
            /\ indexes' = a.indexes
            /\ Observe("delete_index", n)
            /\ UNCHANGED <<client, contract>>

ListIndexes ==
    \E f \in Faults(contract) :
        LET a == ServeIndexes(list_indexes_request(client), indexes, f)
            r == Response(a.status, a.body)
        IN  /\ client # NoClient
            /\ Finish("SplunkManager", "list_indexes",
                      <<>>, <<>>, list_indexes(client, r))
            /\ indexes' = a.indexes
            /\ Observe("list_indexes", "")
            /\ UNCHANGED <<client, contract>>

GetIndexDetails ==
    \E n \in IndexNames, f \in Faults(contract) :
        LET a == ServeIndexes(get_index_details_request(client, n), indexes, f)
            r == Response(a.status, a.body)
        IN  /\ client # NoClient
            /\ Finish("SplunkManager", "get_index_details",
                      [index_name |-> n], <<>>,
                      get_index_details(client, n, r))
            /\ indexes' = a.indexes
            /\ Observe("get_index_details", n)
            /\ UNCHANGED <<client, contract>>

ExecuteSearch ==
    \E q \in Queries, r1 \in OtherResponses(contract),
       r2 \in OtherResponses(contract) :
        /\ client # NoClient
        /\ Finish("SplunkManager", "execute_search",
                  [query |-> q, earliest_time |-> "-1h", latest_time |-> "now"],
                  <<>>,
                  execute_search(client, q, "-1h", "now", r1, r2))
        /\ Observe("execute_search", "")
        /\ UNCHANGED <<client, indexes, contract>>

GetSearchResults ==
    \E sid \in Sids, r \in OtherResponses(contract) :
        /\ client # NoClient
        /\ Finish("SplunkManager", "get_search_results",
                  [sid |-> sid], <<>>,
                  get_search_results(client, sid, r))
        /\ Observe("get_search_results", "")
        /\ UNCHANGED <<client, indexes, contract>>

InstallApp ==
    \E f \in Paths, readable \in BOOLEAN, r \in OtherResponses(contract) :
        /\ client # NoClient
        /\ Finish("SplunkManager", "install_app",
                  [app_package |-> f],
                  [readable |-> readable],
                  install_app(client, f, readable, r))
        /\ Observe("install_app", "")
        /\ UNCHANGED <<client, indexes, contract>>

ListInstalledApps ==
    \E r \in OtherResponses(contract) :
        /\ client # NoClient
        /\ Finish("SplunkManager", "list_installed_apps",
                  <<>>, <<>>, list_installed_apps(client, r))
        /\ Observe("list_installed_apps", "")
        /\ UNCHANGED <<client, indexes, contract>>

DeleteApp ==
    \E a \in Apps, r \in OtherResponses(contract) :
        /\ client # NoClient
        /\ Finish("SplunkManager", "delete_app",
                  [app_name |-> a], <<>>, delete_app(client, a, r))
        /\ Observe("delete_app", "")
        /\ UNCHANGED <<client, indexes, contract>>

RestartServer ==
    \E r \in OtherResponses(contract) :
        /\ client # NoClient
        /\ Finish("SplunkManager", "restart_server",
                  <<>>, <<>>, restart_server(client, r))
        /\ Observe("restart_server", "")
        /\ UNCHANGED <<client, indexes, contract>>

GetServerInfo ==
    \E r \in OtherResponses(contract) :
        /\ client # NoClient
        /\ Finish("SplunkManager", "get_server_info",
                  <<>>, <<>>, get_server_info(client, r))
        /\ Observe("get_server_info", "")
        /\ UNCHANGED <<client, indexes, contract>>

NoCall ==
    /\ cls = "" /\ op = "" /\ args = <<>> /\ env = <<>>
    /\ ret = PyNone /\ exc = "none" /\ log = <<>> /\ ssh = "none"

Init ==
    /\ NoCall
    /\ client = NoClient
    /\ indexes = {}
    /\ contract = TRUE
    /\ lastList = [known |-> FALSE, names |-> {}]
    /\ touched = {}

\* Compute and object store: EC2Manager, the create_instance and
\* tag_instance of the two other classes, S3Backend.
NextCompute ==
    \/ CheckTags
    \/ EC2ManagerCreateInstance
    \/ DeployerCreateInstance
    \/ NodeManagerCreateInstance
    \/ ListInstances
    \/ StartInstance
    \/ StopInstance
    \/ TerminateInstance
    \/ AssociateIamRole
    \/ CreateCloudwatchAlarm
    \/ ListCloudwatchAlarms
    \/ TagInstance
    \/ UploadFile
    \/ DownloadFile
    \/ ListFiles
    \/ DeleteFile

SpecCompute == Init /\ [][NextCompute]_vars

\* The agent checks, over the command channel and over a shell session.
NextAgent ==
    \/ DeployerCheckSsmAgent
    \/ NodeManagerCheckSsmAgent
    \/ InstallSsmAgent
    \/ CheckAndResolveSsm

SpecAgent == Init /\ [][NextAgent]_vars

\* The two configure_splunk.
NextConfigure ==
    \/ NodeManagerConfigureSplunk
    \/ DeployerConfigureSplunk

SpecConfigure == Init /\ [][NextConfigure]_vars

\* The search platform's client. The platform may be one that keeps to its
\* REST contract or one that does not.
InitSplunk ==
    /\ NoCall
    /\ client = NoClient
    /\ indexes = {}
    /\ contract \in BOOLEAN
    /\ lastList = [known |-> FALSE, names |-> {}]
    /\ touched = {}

NextSplunk ==
    \/ Construct
    \/ CreateIndex
    \/ DeleteIndex
    \/ ListIndexes
    \/ GetIndexDetails
    \/ ExecuteSearch
    \/ GetSearchResults
    \/ InstallApp
    \/ ListInstalledApps
    \/ DeleteApp
    \/ RestartServer
    \/ GetServerInfo

SpecSplunk == InitSplunk /\ [][NextSplunk]_vars

\* The deployer module: the methods of SplunkDeployer, and the module as
\* its tests use it.
NextDeployer ==
    \/ DeployerCreateInstance
    \/ DeployerCheckSsmAgent
    \/ DeploySplunk
    \/ DeployerConfigureSplunk
    \/ HealthCheck
    \/ DeployerUse

SpecDeployer == Init /\ [][NextDeployer]_vars

\* The operations that may make more than one request in a call, and those
\* of SplunkDeployer that make one.
NextFacade ==
    \/ DeployerCheckSsmAgent
    \/ NodeManagerCheckSsmAgent
    \/ InstallSsmAgent
    \/ CheckAndResolveSsm
    \/ NodeManagerConfigureSplunk
    \/ DeployerConfigureSplunk
    \/ DeploySplunk
    \/ HealthCheck
    \/ Construct
    \/ ExecuteSearch

SpecFacade == Init /\ [][NextFacade]_vars

-----------------------------------------------------------------------------
(* Properties of the compute and object-store calls (SpecCompute).         *)

\* The tag list of the instance that check_tags described.
DescribedTags == IF env.instance.hasTags THEN env.instance.Tags ELSE <<>>

\* Key k is on the described instance with exactly the value v.
HasTag(k, v) ==
    \E j \in 1..Len(DescribedTags) :
        DescribedTags[j].Key = k /\ PyStr(DescribedTags[j].Value) = v

\* C1: when the instance could be described, check_tags returns True if and
\* only if every required key is present on the instance with exactly the
\* required value; a required key that is absent gives False, also when
\* the required value is None.
C1_TrueIffEveryRequiredTagPresent ==
    (cls = "EC2Manager" /\ op = "check_tags" /\ env.outcome = "ok") =>
        /\ exc = "none"
        /\ ret = PyBool(\A k \in DOMAIN args.required_tags :
                           HasTag(k, args.required_tags[k]))

\* C2: every create_instance call issues exactly one run_instances request;
\* on the provider's success it returns the non-empty identifier of the new
\* instance, on a provider error it returns None, and it does not raise.
C2_OneRequestIdOrNone ==
    op = "create_instance" =>
        /\ Len(log) = 1
        /\ log[1].api = "run_instances"
        /\ exc = "none"
        /\ env.outcome = "ok" => ret = PyStr(env.new_id) /\ env.new_id # ""
        /\ env.outcome = "ClientError" => ret = PyNone

C8Booleans ==
    {"start_instance", "stop_instance", "terminate_instance", "tag_instance",
     "associate_iam_role", "upload_file", "download_file", "delete_file"}
C8Listings == {"list_instances", "list_files"}

\* C8: each of the compute and object-store operations that meets a provider
\* error returns its sentinel (False, or the empty list) and never raises;
\* True, or listed items, are returned only when the provider call succeeded.
C8_ProviderErrorGivesSentinel ==
    /\ op \in C8Booleans =>
        /\ exc = "none"
        /\ ret = PyBool(env.outcome = "ok")
    /\ op \in C8Listings =>
        /\ exc = "none"
        /\ env.outcome # "ok" => ret = PyList(<<>>)

-----------------------------------------------------------------------------
(* Properties of configure_splunk (SpecConfigure).                         *)

RecognizedKeys == {"license", "index", "forwarder", "search_head"}

\* The file-write commands of the call, over all its submissions.
WriteCommands == Flatten([k \in 1..Len(log) |-> log[k].arg.commands])

\* C3: configure_splunk called with a configuration map that holds none of
\* the recognized keys issues no file-write command and returns True (the
\* submissions, if any, being accepted).
C3_UnrecognizedKeysOnly ==
    (/\ op = "configure_splunk"
     /\ DOMAIN args.splunk_conf \cap RecognizedKeys = {}
     /\ \A k \in 1..Len(env.sends) : env.sends[k] = "ok") =>
        /\ exc = "none"
        /\ ret = PyBool(TRUE)
        /\ WriteCommands = <<>>

-----------------------------------------------------------------------------
(* Properties of the search platform's client (SpecSplunk).                *)

\* The secret that the construction resolved to a dict.
ResolvedDict == env.outcome = "ok" /\ env.secret.form = "dict"
HasField(k) == Truthy(DictGet(env.secret.v, k))

\* C4: constructing SplunkManager raises ValueError and yields no client
\* whenever the resolved secret lacks the username or lacks the password
\* (absent or empty); a construction that succeeds had both and stores the
\* (username, password) pair of the secret as the client's auth.
C4_IncompleteSecretIsFatal ==
    (cls = "SplunkManager" /\ op = "__init__") =>
        /\ (ResolvedDict /\ ~(HasField("username") /\ HasField("password"))) =>
               exc = "ValueError" /\ ret.t = "raised"
        /\ exc = "none" =>
               /\ ResolvedDict /\ HasField("username") /\ HasField("password")
               /\ ret.t = "SplunkManager"
               /\ client = ret.v
               /\ client.auth.v = <<env.secret.v["username"],
                                    env.secret.v["password"]>>

\* A construction that failed on a secret with a username and no password.
C4_Witness ==
    /\ cls = "SplunkManager" /\ op = "__init__"
    /\ ResolvedDict
    /\ HasField("username")
    /\ "password" \notin DOMAIN env.secret.v
    /\ exc = "ValueError"

\* C5: a successful execute_search made exactly two requests: first the one
\* POST that submits the job, then the one GET that fetches the results of
\* the sid which that POST returned; no call submits a second time.
C5_SubmitThenFetchOnce ==
    (cls = "SplunkManager" /\ op = "execute_search") =>
        /\ Len(log) \in 1..2
        /\ log[1].method = "POST" /\ log[1].url = JobsUrl(client)
        /\ \A k \in 2..Len(log) : log[k].method = "GET"
        /\ exc = "none" =>
               /\ Len(log) = 2
               /\ log[1].body.json /\ "sid" \in DOMAIN log[1].body.v
               /\ log[2].url = ResultsUrl(client, log[1].body.v.sid)

\* A successful execute_search whose job was given the sid "s2".
C5_Witness ==
    /\ cls = "SplunkManager" /\ op = "execute_search" /\ exc = "none"
    /\ Len(log) = 2
    /\ log[1].body.v.sid = "s2"
    /\ log[2].status = 200

\* A call that ended well and is followed by a listing that ended well, on a
\* platform that keeps to its contract.
ThenListed(o) ==
    /\ contract
    /\ cls = "SplunkManager" /\ op = o /\ exc = "none"
    /\ op' = "list_indexes" /\ exc' = "none"

\* C6: on a platform that honours its REST contract, a listing that follows
\* a successful create_index(n) contains n, a listing that follows a
\* successful delete_index(n) does not contain n, and every index that no
\* create or delete named since the previous listing is listed as it was.
C6_IndexLifecycleRoundTrip ==
    [][ /\ ThenListed("create_index") => args.index_name \in ret'.v
        /\ ThenListed("delete_index") => args.index_name \notin ret'.v
        /\ (contract /\ op' = "list_indexes" /\ exc' = "none" /\ lastList'.known) =>
               \A m \in IndexNames \ touched' :
                   m \in lastList'.names <=> m \in ret'.v ]_vars

\* A listing that lacks an index which the listing before it had, a delete
\* having named it in between, while another index stayed listed.
C6_Witness ==
    /\ contract
    /\ cls = "SplunkManager" /\ op = "list_indexes" /\ exc = "none"
    /\ lastList.known
    /\ \E n \in touched : n \in lastList.names /\ n \notin ret.v
    /\ \E m \in IndexNames \ touched : m \in lastList.names /\ m \in ret.v

RestOperations ==
    {"create_index", "delete_index", "list_indexes", "get_index_details",
     "execute_search", "get_search_results", "install_app",
     "list_installed_apps", "delete_app", "restart_server", "get_server_info"}
EntryOperations == {"list_indexes", "list_installed_apps"}

\* A REST operation that made at least one request.
RestCall == cls = "SplunkManager" /\ op \in RestOperations /\ log # <<>>
LastExchange == log[Len(log)]

\* What the operation returns of a JSON body.
Parsed(body) ==
    IF op \in EntryOperations
    THEN [t |-> "entries",
          v |-> IF "entry" \in DOMAIN body.v THEN body.v.entry ELSE {}]
    ELSE PyDict(body.v)

\* The operation has no further request to make after its last exchange.
Complete == op = "execute_search" => Len(log) = 2

\* C7: in every index, search, app and server operation a response with a
\* status outside 200-299 makes the operation raise an error that carries
\* the status, and a 2xx response (of a body that parses) makes it return
\* the parsed body.
C7_Non2xxRaises ==
    RestCall =>
        /\ \A k \in 1..Len(log) :
               log[k].status \notin 200..299 =>
                   exc = "HTTPError" /\ ret = [t |-> "raised", carries |-> log[k].status]
        /\ (Complete /\ LastExchange.status \in 200..299 /\ LastExchange.body.json) =>
               exc = "none" /\ ret = Parsed(LastExchange.body)

\* C7, as the code has it: a response with a status in 400-599 ends the
\* operation with an HTTPError that carries the status; a response with any
\* other status is read as JSON, and the operation returns the parsed body
\* (the entry list in the two listings) and returns nothing else.
C7_ErrorStatusRaises ==
    RestCall =>
        /\ \A k \in 1..Len(log) :
               log[k].status \in 400..599 =>
                   /\ k = Len(log)
                   /\ exc = "HTTPError"
                   /\ ret = [t |-> "raised", carries |-> log[k].status]
        /\ (Complete /\ LastExchange.status \notin 400..599 /\ LastExchange.body.json) =>
               exc = "none" /\ ret = Parsed(LastExchange.body)
        /\ exc = "none" =>
               /\ Complete
               /\ LastExchange.status \notin 400..599
               /\ LastExchange.body.json
               /\ ret = Parsed(LastExchange.body)
        /\ exc = "HTTPError" => LastExchange.status \in 400..599

\* A delete_index that the platform answered with 404.
C7_Witness ==
    /\ RestCall /\ op = "delete_index"
    /\ LastExchange.status = 404
    /\ exc = "HTTPError" /\ ret.carries = 404

-----------------------------------------------------------------------------
(* Properties of the agent checks (SpecAgent).                             *)

\* The status probe of check_ssm_agent came back with a report: the
\* submission was accepted and, in EC2NodeManager, its output was fetched.
ProbeReported ==
    /\ env.probe = "ok"
    /\ cls = "EC2NodeManager" => env.fetch = "ok"

\* What the probe reported counts as the agent running.
ProbeSuccess ==
    IF cls = "SplunkDeployer" THEN env.status = "Success"
    ELSE Contains(env.output, "amazon-ssm-agent")

ProbeCommands == IF cls = "SplunkDeployer" THEN DeployerProbe ELSE NodeManagerProbe
InstallCommands ==
    IF cls = "SplunkDeployer" THEN DeployerInstall ELSE NodeManagerInstall

\* The positions of the log where `commands` were submitted.
Submissions(commands) ==
    {k \in 1..Len(log) : log[k].api = "send_command" /\ log[k].arg.commands = commands}

\* C9: check_ssm_agent returns True only when the probe reported success,
\* and then submitted no install; when the probe reported anything else the
\* call submitted the install-and-start commands exactly once, after its
\* one probe, and returned False whether the submission was accepted or
\* met a provider error.
C9_InstallOnceReturnFalse ==
    op = "check_ssm_agent" =>
        /\ ret = PyBool(TRUE) => ProbeReported /\ ProbeSuccess
        /\ (ProbeReported /\ ProbeSuccess) =>
               /\ exc = "none" /\ ret = PyBool(TRUE)
               /\ Submissions(InstallCommands) = {}
        /\ (ProbeReported /\ ~ProbeSuccess) =>
               /\ exc = "none" /\ ret = PyBool(FALSE)
               /\ Submissions(InstallCommands) = {Len(log)}
               /\ Submissions(ProbeCommands) = {1}
        /\ Cardinality(Submissions(ProbeCommands)) = 1

\* An EC2NodeManager check whose probe found no agent and whose install
\* submission met a provider error.
C9_Witness ==
    /\ cls = "EC2NodeManager" /\ op = "check_ssm_agent"
    /\ ProbeReported /\ ~ProbeSuccess
    /\ env.install = "ClientError"
    /\ ret = PyBool(FALSE)
    /\ Len(log) = 3

\* The requests of the call that open a shell session.
Connects == {k \in 1..Len(log) : log[k].api = "connect"}

\* C10: check_and_resolve_ssm returns False without raising when the
\* instance has no public address (and then opens no shell session), when
\* the instance lookup fails, and when the shell session cannot be
\* established or authenticated.
C10_FailsClosed ==
    op = "check_and_resolve_ssm" =>
        /\ env.describe = "ClientError" =>
               exc = "none" /\ ret = PyBool(FALSE) /\ Connects = {}
        /\ (env.describe = "ok" /\ env.public_ip = PyNone) =>
               exc = "none" /\ ret = PyBool(FALSE) /\ Connects = {} /\ ssh = "none"
        /\ (env.describe = "ok" /\ env.public_ip # PyNone /\ env.connect # "ok") =>
               exc = "none" /\ ret = PyBool(FALSE)

\* The file that a recognized key is written to.
PathOf(k) ==
    CASE k = "license" -> LicensePath
      [] k = "index" -> IndexesConfPath
      [] k = "forwarder" -> InputsPath
      [] k = "search_head" -> OutputsPath

\* C11: configure_splunk makes a single send_command call, and the batch of
\* that call holds exactly one file-overwrite command for each recognized
\* key of the configuration map (license, index, forwarder, search_head):
\* the key's literal content written to the key's fixed path.
C11_OneCommandPerKeyOneBatch ==
    op = "configure_splunk" =>
        LET present == DOMAIN args.splunk_conf \cap RecognizedKeys
        IN  /\ Len(log) = 1
            /\ Len(WriteCommands) = Cardinality(present)
            /\ \A k \in present :
                   \E j \in 1..Len(WriteCommands) :
                       WriteCommands[j] = Echo(args.splunk_conf[k], PathOf(k))

\* C12: for every configuration map configure_splunk never raises and
\* returns True exactly when the submission was accepted, False exactly
\* when it met a provider error, whatever keys the map holds.
C12_ResultIsSubmissionOutcome ==
    op = "configure_splunk" =>
        /\ exc = "none"
        /\ ret = PyBool(\A k \in 1..Len(log) : env.sends[k] = "ok")

-----------------------------------------------------------------------------
(* Properties of whole calls, whatever the operation (SpecFacade).         *)

\* How the k-th request that the call may make ended, for the operations
\* on the provider's side: the answers the call met, in request order.
Answers ==
    CASE op = "check_ssm_agent" /\ cls = "SplunkDeployer" -> <<env.probe, env.install>>
      [] op = "check_ssm_agent" /\ cls = "EC2NodeManager" ->
             <<env.probe, env.fetch, env.install>>
      [] op = "configure_splunk" -> env.sends
      [] op = "check_and_resolve_ssm" ->
             <<env.describe, env.connect>>
                 \o [k \in 1..NumHelperCommands |->
                        IF env.failAt = k THEN "SSHException" ELSE "ok"]
      [] op \in {"install_ssm_agent", "deploy_splunk", "health_check", "__init__"} ->
             <<env.outcome>>

\* The positions of the log whose request failed: it met a provider error,
\* or an HTTP error status.
FailedRequests ==
    IF cls = "SplunkManager" /\ op \in RestOperations
    THEN {k \in 1..Len(log) : log[k].status \in 400..599}
    ELSE {k \in 1..Len(log) : Answers[k] # "ok"}

\* C13: no operation retries: in one call, a request that failed is the
\* last request of the call; the call makes neither the same request again
\* nor a later one, it returns or raises.
C13_FailedRequestIsLast ==
    op # "" => \A k \in FailedRequests : k = Len(log)

\* A SplunkDeployer.configure_splunk whose first submission met a provider
\* error and which did not go on to its second.
C13_Witness ==
    /\ cls = "SplunkDeployer" /\ op = "configure_splunk"
    /\ {"forwarder", "search_head"} \subseteq DOMAIN args.splunk_conf
    /\ env.sends[1] = "ClientError"
    /\ FailedRequests = {1}
    /\ Len(log) = 1
    /\ ret = PyBool(FALSE)

-----------------------------------------------------------------------------
(* The credential pair of the search platform's client (SpecSplunk).       *)

\* C14: the credential pair is resolved in the construction, by its one
\* request to the secrets service; an index, search, app or server
\* operation makes no request to the secrets service, leaves the stored
\* pair as it was, and each of its requests carries that pair.
C14_CredentialsResolvedOnce ==
    [][ /\ (cls' = "SplunkManager" /\ op' = "__init__" /\ exc' = "none") =>
               /\ Len(log') = 1
               /\ log'[1].svc = "secretsmanager"
               /\ client'.auth.v = <<env'.secret.v["username"],
                                     env'.secret.v["password"]>>
        /\ (cls' = "SplunkManager" /\ op' \in RestOperations) =>
               /\ client' = client
               /\ \A k \in 1..Len(log') :
                      /\ "svc" \notin DOMAIN log'[k]
                      /\ log'[k].auth = client.auth ]_vars

\* A search whose two requests both carried the pair of the construction.
C14_Witness ==
    /\ cls = "SplunkManager" /\ op = "execute_search"
    /\ Len(log) = 2
    /\ client.auth.v = <<PyStr("admin"), PyStr("changeme")>>
    /\ log[1].auth = client.auth /\ log[2].auth = client.auth

\* C15: a provider error of the secrets service during the credential
\* lookup is caught at the call site and turned into a sentinel result: the
\* construction does not raise.
C15_SecretsErrorGivesSentinel ==
    (cls = "SplunkManager" /\ op = "__init__" /\ env.outcome = "ClientError") =>
        exc = "none"

\* C15, as the code has it: a provider error of the secrets service during
\* the credential lookup is not caught; it leaves the construction as that
\* exception after the one request, and no client comes of it.
C15_SecretsErrorPropagates ==
    [][ (cls' = "SplunkManager" /\ op' = "__init__" /\ env'.outcome # "ok") =>
            /\ exc' = env'.outcome
            /\ ret' = Unwound
            /\ Len(log') = 1 /\ log'[1].api = "get_secret_value"
            /\ client' = client ]_vars

\* A construction that met a provider error of the secrets service.
C15_Witness ==
    /\ cls = "SplunkManager" /\ op = "__init__"
    /\ env.outcome = "ClientError"
    /\ exc = "ClientError"
    /\ client = NoClient

-----------------------------------------------------------------------------
(* The CloudWatch alarms of EC2Manager (SpecCompute).                      *)

\* C16: on an EC2Manager as its constructor builds it, neither alarm
\* operation raises: create_cloudwatch_alarm returns True when the alarm
\* request succeeds and False when it fails, list_cloudwatch_alarms returns
\* the alarms of the response, or the empty list when the request fails.
C16_AlarmOperationsNeverRaise ==
    (cls = "EC2Manager" /\ op \in {"create_cloudwatch_alarm", "list_cloudwatch_alarms"}
         /\ env.self = EC2Manager_init) =>
        /\ exc = "none"
        /\ op = "create_cloudwatch_alarm" => ret = PyBool(env.outcome = "ok")
        /\ op = "list_cloudwatch_alarms" =>
               ret = PyList(IF env.outcome = "ok" THEN env.alarms ELSE <<>>)

-----------------------------------------------------------------------------
(* The class Deployer that the module's tests expect (SpecDeployer).       *)

\* C17: Deployer.deploy_app makes exactly one POST to <base_url>/apps/deploy
\* and check_app_status exactly one GET to <base_url>/apps/status, each
\* with the configured credential pair; the call ends with the response
\* body, or with an exception that carries the response's error message.
C17_DeployAppOneRequest ==
    (cls = "Deployer" /\ op \in {"deploy_app", "check_app_status"}) =>
        /\ exc \in {"none", "Exception"}
        /\ Len(log) = 1
        /\ log[1].method = (IF op = "deploy_app" THEN "POST" ELSE "GET")
        /\ log[1].url = <<args.base_url,
                          IF op = "deploy_app" THEN "/apps/deploy" ELSE "/apps/status">>
        /\ log[1].auth = args.auth

\* C18: constructing Deployer with a base URL that is no http(s) URL raises
\* ValueError; with a valid base URL the construction succeeds and the
\* object holds the base URL and the credential pair unchanged.
C18_InvalidBaseUrlRejected ==
    (cls = "Deployer" /\ op = "__init__") =>
        IF args.base_url = "ftp://invalid.url"
        THEN exc = "ValueError"
        ELSE exc = "none" /\ ret = [base_url |-> args.base_url, auth |-> args.auth]

-----------------------------------------------------------------------------
(* The remediation of check_and_resolve_ssm (SpecAgent).                   *)

\* The session was opened and the first probe was read.
FirstProbeRead ==
    /\ op = "check_and_resolve_ssm" /\ exc = "none"
    /\ env.describe = "ok" /\ env.public_ip # PyNone /\ env.connect = "ok"
    /\ env.failAt # 1

\* C19: when the first probe reads 'active' the call returns True and issues
\* no remediation command; otherwise install, enable and start are issued
\* in that order, all three have ended when the second probe is evaluated,
\* and the call returns True iff that probe reads 'active'.
C19_ReturnsStatusAfterRemediation ==
    FirstProbeRead =>
        IF Strip(env.out1) = <<"active">>
        THEN ret = PyBool(TRUE) /\ Len(log) = 3
        ELSE env.failAt = 0 =>
                 /\ SubSeq(log, 4, 6) = <<Exec(2), Exec(3), Exec(4)>>
                 /\ env.done = RemediationCommands
                 /\ ret = PyBool(Strip(env.out2) = <<"active">>)

-----------------------------------------------------------------------------
(* The tag list of the two create_instance (SpecCompute).                  *)

\* The tags of a dict argument, one per key.
DictTags(d) ==
    CHOOSE q \in SeqsUpTo({Tag(k, d[k]) : k \in DOMAIN d}, Cardinality(DOMAIN d)) :
        {q[j] : j \in 1..Len(q)} = {Tag(k, d[k]) : k \in DOMAIN d}

\* The tags that the caller supplied, in order.
SuppliedTags ==
    CASE args.tags.t = "list" -> args.tags.v
      [] args.tags.t = "dict" -> DictTags(args.tags.v)
      [] OTHER -> <<>>

\* C20: for every instance name and every tags argument the create_instance
\* of SplunkDeployer and that of EC2NodeManager send the same tag list: the
\* Name tag, once and first, followed by the supplied tags in order, and
\* the Name tag alone when tags is omitted or empty.
C20_SameTagListInBothVariants ==
    (cls \in {"SplunkDeployer", "EC2NodeManager"} /\ op = "create_instance") =>
        /\ Deployer_Tags(args.instance_name, args.tags)
               = NodeManager_Tags(args.instance_name, args.tags)
        /\ Len(log) = 1
        /\ log[1].arg.Tags = PyList(<<NameTag(args.instance_name)>> \o SuppliedTags)

-----------------------------------------------------------------------------
(* The health check of SplunkDeployer (SpecDeployer).                      *)

\* C21: health_check submits exactly one command, the status command, to
\* the instance and nothing else, never raises, and returns True iff the
\* submission was accepted and the status reported for it is 'Success';
\* any other status, or a provider error, gives False.
C21_OneStatusCommandDecides ==
    (cls = "SplunkDeployer" /\ op = "health_check") =>
        /\ exc = "none"
        /\ Len(log) = 1
        /\ log[1].svc = "ssm" /\ log[1].api = "send_command"
        /\ log[1].arg.InstanceId = args.instance_id
        /\ log[1].arg.commands = <<"/opt/splunk/bin/splunk status">>
        /\ ret = PyBool(env.outcome = "ok" /\ env.status = "Success")

\* A health check whose submission was accepted and reported 'Pending':
\* one command, and False.
C21_Witness ==
    /\ cls = "SplunkDeployer" /\ op = "health_check"
    /\ env.outcome = "ok" /\ env.status = "Pending"
    /\ Len(log) = 1
    /\ ret = PyBool(FALSE)

-----------------------------------------------------------------------------
(* The shell session of check_and_resolve_ssm (SpecAgent).                 *)

\* The call opened a shell session: ssh.connect was made and returned.
SessionOpened ==
    /\ op = "check_and_resolve_ssm"
    /\ env.describe = "ok" /\ Truthy(env.public_ip) /\ env.connect = "ok"

\* C22: once check_and_resolve_ssm has opened a shell session, the session
\* is closed when the call ends, on every path: the return on an 'active'
\* first probe, the two returns after the remediation, and the paths where
\* a command on the open session fails with an SSH error.
C22_SessionClosedOnEveryPath ==
    SessionOpened => ssh = "closed"

\* The paths on which the method calls ssh.close(): no command on the
\* session failed.
ClosedWhenNoCommandFails ==
    (SessionOpened /\ env.failAt \notin 1..(Len(log) - 2)) => ssh = "closed"

-----------------------------------------------------------------------------
(* The failed submission of execute_search (SpecSplunk).                   *)

\* The job submission of the call: its first exchange.
Submit == log[1]

\* C23: when the job submission of execute_search is answered with an error
\* status (400-599), execute_search raises, with the HTTPError of that
\* status, and issues no results fetch; execute_search issues a results
\* fetch only after a submission that succeeded, that is one answered
\* with a status that is no error and with the sid of the job, and the
\* fetch is for that job.
C23_NoFetchAfterFailedSubmit ==
    (cls = "SplunkManager" /\ op = "execute_search") =>
        /\ Submit.method = "POST" /\ Submit.url = JobsUrl(client)
        /\ Submit.status \in 400..599 =>
               /\ exc = "HTTPError" /\ ret.carries = Submit.status
               /\ Len(log) = 1
        /\ \A k \in 2..Len(log) :
               /\ Submit.status \notin 400..599
               /\ Submit.body.json /\ "sid" \in DOMAIN Submit.body.v
               /\ log[k].method = "GET"
               /\ log[k].url = ResultsUrl(client, Submit.body.v.sid)

\* An execute_search whose submission was answered with 503: it raised
\* after that one request.
C23_Witness ==
    /\ cls = "SplunkManager" /\ op = "execute_search"
    /\ Submit.status = 503
    /\ exc = "HTTPError"
    /\ Len(log) = 1

====
